---- MODULE Spec2Model ----
(***************************************************************************)
(* A model of src/eval/bleu.py: the BLEU class with its three static       *)
(* methods compute, modified_precision and brevity_penalty.                *)
(*                                                                         *)
(* Numbers.  A precision is a rational <<num, den>> in lowest terms.       *)
(* The brevity penalty is 1 or exp(1 - r/c); it is stored as its natural   *)
(* logarithm, a rational (<<0, 1>> is the penalty 1).  A weight is a whole *)
(* number of weight units u (with u = 1/2 the vector <<1, 1>> is           *)
(* [0.5, 0.5]); the running sum s of compute is stored as the rational     *)
(* exp(s / u), so that "s = 0.0" is <<1, 1>> and "s += weight * log(p)" is *)
(* a multiplication by p^weight.  A score bp * exp(s) is the pair of the   *)
(* two.  Because e^q is irrational for every rational q # 0, two scores    *)
(* are equal as real numbers exactly when the pairs are equal.  Rounding   *)
(* of floating point numbers is not modelled.                              *)
(***************************************************************************)
EXTENDS Integers, Sequences, FiniteSets, TLC

VARIABLES
  A,           \* the caller's candidate token list
  B,           \* the caller's list of reference token lists
  variant,     \* how the arguments of the current call are made from A and B
  call,        \* 1 for the first call of the session, 2 for the second
  first,       \* the outcome of the first call, once a second one is made
  seed,        \* the string hash seed of the running interpreter process
  fn,          \* the static method the caller calls
  candidate,   \* parameter / local of the method
  references,  \* parameter / local of the method
  weights,     \* parameter of compute
  n,           \* parameter n of a direct modified_precision call
  pc,          \* position in the method
  err,         \* the exception raised, "" when none
  bp,          \* local bp of compute, or brevity_penalty's return value
  s,           \* local s of compute
  i,           \* local i of compute
  p_n,         \* local p_n of compute, or modified_precision's return value
  ps,          \* every value p_n has taken in this call, in order
  result       \* compute's return value

vars == <<A, B, variant, call, first, seed, fn, candidate, references, weights,
          n, pc, err, bp, s, i, p_n, ps, result>>

(***************************************************************************)
(* Bounds of the model.                                                    *)
(***************************************************************************)
MaxLen == 2
MaxRefs == 2
MaxRefTokens == 3
MaxN == 2
MaxSeed == 1

\* Tokens of the single-call specification and of the two-call specification.
\* "U+0131" stands for the one-character string LATIN SMALL LETTER DOTLESS I.
Tokens == {"A", "b"}
PairTokens == {"i", "I", "U+0131"}
WeightValues == {1, 2}
Seeds == 0..MaxSeed

SeqsUpTo(S, k) == UNION {[1..m -> S] : m \in 0..k}

RECURSIVE TotalLen(_)
TotalLen(lists) ==
  IF lists = <<>> THEN 0 ELSE Len(Head(lists)) + TotalLen(Tail(lists))

RefLists(S) ==
  UNION {{rl \in [1..k -> SeqsUpTo(S, MaxRefTokens)] : TotalLen(rl) <= MaxRefTokens}
         : k \in 0..MaxRefs}

WeightVectors == SeqsUpTo(WeightValues, MaxN)
UnitWeightVectors == {[k \in 1..m |-> 1] : m \in 1..MaxN}

(***************************************************************************)
(* Rational arithmetic.                                                    *)
(***************************************************************************)
Abs(x) == IF x < 0 THEN -x ELSE x

RECURSIVE GCD(_, _)
GCD(a, b) == IF b = 0 THEN a ELSE GCD(b, a % b)

\* a / b in lowest terms, b > 0
Rat(a, b) == LET g == GCD(Abs(a), b) IN <<a \div g, b \div g>>

Zero == <<0, 1>>
One == <<1, 1>>
Unset == <<0, 0>>
NoScore == [e |-> Unset, p |-> Unset]

RatMul(x, y) == Rat(x[1] * y[1], x[2] * y[2])
RatLeq(x, y) == x[1] * y[2] <= y[1] * x[2]
RatLess(x, y) == x[1] * y[2] < y[1] * x[2]

RECURSIVE RatPow(_, _)
RatPow(x, k) == IF k = 0 THEN One ELSE RatMul(x, RatPow(x, k - 1))

(***************************************************************************)
(* Python's str.lower and str.upper on the tokens of the model.            *)
(***************************************************************************)
str_lower(t) ==
  CASE t = "A" -> "a"
    [] t = "B" -> "b"
    [] t = "I" -> "i"
    [] OTHER -> t

str_upper(t) ==
  CASE t = "a" -> "A"
    [] t = "b" -> "B"
    [] t = "i" -> "I"
    [] t = "U+0131" -> "I"
    [] OTHER -> t

\* line 94
lower_candidate(cand) == [k \in 1..Len(cand) |-> str_lower(cand[k])]

LowerList(x) == [k \in 1..Len(x) |-> str_lower(x[k])]
\* line 95 left out: the references keep their case
references_not_lowered(refs) == refs

\* line 95
lower_references(refs) == [k \in 1..Len(refs) |-> LowerList(refs[k])]

UpperList(x) == [k \in 1..Len(x) |-> str_upper(x[k])]
UpperLists(refs) == [k \in 1..Len(refs) |-> UpperList(refs[k])]
LowerLists(refs) == [k \in 1..Len(refs) |-> LowerList(refs[k])]

(***************************************************************************)
(* nltk.util.ngrams, list.count and the iteration order of a set.          *)
(***************************************************************************)
\* one window too many: the last one runs off the end of the sequence
ngrams_short_window(sequence, k) ==
  IF Len(sequence) + 1 < k THEN <<>>
  ELSE [j \in 1..(Len(sequence) - k + 2) |->
          SubSeq(sequence, j, IF j + k - 1 > Len(sequence) THEN Len(sequence) ELSE j + k - 1)]

ngrams(sequence, k) ==
  IF Len(sequence) < k THEN <<>>
  ELSE [j \in 1..(Len(sequence) - k + 1) |-> SubSeq(sequence, j, j + k - 1)]

list_count(list, x) == Cardinality({j \in 1..Len(list) : list[j] = x})

RECURSIVE Distinct(_, _)
Distinct(list, seen) ==
  IF list = <<>> THEN seen
  ELSE Distinct(Tail(list),
                IF \E j \in 1..Len(seen) : seen[j] = Head(list)
                THEN seen ELSE Append(seen, Head(list)))

\* The order in which "for word in c_words" visits set(candidate_ngrams):
\* it is fixed by the hashes of the n-grams, which the interpreter salts with
\* its per-process seed.  Every member of the set is visited last for some
\* seed.
set_order(list, sd) ==
  LET d == Distinct(list, <<>>)
      m == Len(d)
  IN  IF m = 0 THEN <<>>
      ELSE [j \in 1..m |-> d[((j - 1 + sd) % m) + 1]]

(***************************************************************************)
(* BLEU.modified_precision                                                 *)
(***************************************************************************)
\* "+ 1" left out of the reference count
RECURSIVE refs_loop_no_plus(_, _, _, _)
refs_loop_no_plus(refs, word, k, count_max) ==
  IF refs = <<>> THEN count_max
  ELSE LET count == list_count(ngrams(Head(refs), k), word)
       IN  refs_loop_no_plus(Tail(refs), word, k,
                             IF count > count_max THEN count ELSE count_max)

\* The loop "for reference in references" over the references left, with the
\* running count_max.
RECURSIVE refs_loop(_, _, _, _)
refs_loop(refs, word, k, count_max) ==
  IF refs = <<>> THEN count_max
  ELSE LET count == list_count(ngrams(Head(refs), k), word) + 1
       IN  refs_loop(Tail(refs), word, k,
                     IF count > count_max THEN count ELSE count_max)

\* "count_max = 0" moved out of the loop over the words
RECURSIVE words_loop_max_kept(_, _, _, _, _)
words_loop_max_kept(order, candidate_ngrams, refs, k, counts) ==
  IF order = <<>> THEN counts
  ELSE words_loop_max_kept(Tail(order), candidate_ngrams, refs, k,
                           <<list_count(candidate_ngrams, Head(order)) + 1,
                             refs_loop(refs, Head(order), k, counts[2])>>)

\* The loop "for word in c_words" over the words left; counts is
\* <<count_w, count_max>> as the previous iteration left them.
RECURSIVE words_loop(_, _, _, _, _)
words_loop(order, candidate_ngrams, refs, k, counts) ==
  IF order = <<>> THEN counts
  ELSE words_loop(Tail(order), candidate_ngrams, refs, k,
                  <<list_count(candidate_ngrams, Head(order)) + 1,
                    refs_loop(refs, Head(order), k, 0)>>)

Min2(x, y) == IF x < y THEN x ELSE y

modified_precision(cand, refs, k, sd) ==
  LET candidate_ngrams == ngrams(cand, k)
      c_words == set_order(candidate_ngrams, sd)
      counts == words_loop(c_words, candidate_ngrams, refs, k, <<0, 0>>)
  IN  IF Len(candidate_ngrams) = 0 THEN Zero
      ELSE Rat(Min2(counts[1], counts[2]), Len(cand) + Len(c_words))

(***************************************************************************)
(* BLEU.brevity_penalty: [err, val], val the logarithm of the penalty.     *)
(***************************************************************************)
RECURSIVE MinOf(_)
MinOf(list) ==
  IF Len(list) = 1 THEN list[1]
  ELSE Min2(Head(list), MinOf(Tail(list)))

\* the comparison c > r turned round
brevity_penalty_flipped(cand, refs) ==
  LET c == Len(cand)
      lengthes_ref == [k \in 1..Len(refs) |-> Abs(Len(refs[k]) - c)]
  IN  IF Len(refs) = 0 THEN [err |-> "ValueError", val |-> Unset]
      ELSE LET r == MinOf(lengthes_ref)
           IN  IF c < r THEN [err |-> "", val |-> Zero]
               ELSE IF c = 0 THEN [err |-> "ZeroDivisionError", val |-> Unset]
               ELSE [err |-> "", val |-> Rat(c - r, c)]

\* c >= r in place of c > r
brevity_penalty_geq(cand, refs) ==
  LET c == Len(cand)
      lengthes_ref == [k \in 1..Len(refs) |-> Abs(Len(refs[k]) - c)]
  IN  IF Len(refs) = 0 THEN [err |-> "ValueError", val |-> Unset]
      ELSE LET r == MinOf(lengthes_ref)
           IN  IF c >= r THEN [err |-> "", val |-> Zero]
               ELSE IF c = 0 THEN [err |-> "ZeroDivisionError", val |-> Unset]
               ELSE [err |-> "", val |-> Rat(c - r, c)]

brevity_penalty(cand, refs) ==
  LET c == Len(cand)
      lengthes_ref == [k \in 1..Len(refs) |-> Abs(Len(refs[k]) - c)]
  IN  IF Len(refs) = 0 THEN [err |-> "ValueError", val |-> Unset]
      ELSE LET r == MinOf(lengthes_ref)
           IN  IF c > r THEN [err |-> "", val |-> Zero]
               ELSE IF c = 0 THEN [err |-> "ZeroDivisionError", val |-> Unset]
               ELSE [err |-> "", val |-> Rat(c - r, c)]

(***************************************************************************)
(* BLEU.compute, step by step.                                             *)
(***************************************************************************)
\* a zero precision is not skipped: it takes the score to 0
log_sum_unguarded(sum, weight, p) == RatMul(sum, RatPow(p, weight))

\* lines 105-106
log_sum(sum, weight, p) ==
  IF p # Zero THEN RatMul(sum, RatPow(p, weight)) ELSE sum

Session == <<A, B, variant, call, first, seed, fn>>

\* lines 94-95
LowerCase ==
  /\ fn = "compute" /\ pc = "lower"
  /\ candidate' = lower_candidate(candidate)
  /\ references' = lower_references(references)
  /\ pc' = "bp"
  /\ UNCHANGED <<Session, weights, n, err, bp, s, i, p_n, ps, result>>

\* lines 97-102
BrevityPenalty ==
  /\ fn = "compute" /\ pc = "bp"
  /\ LET r == brevity_penalty(candidate, references)
     IN  IF r.err # ""
         THEN /\ pc' = "error" /\ err' = r.err
              /\ UNCHANGED <<bp, s, i>>
         ELSE /\ bp' = r.val /\ s' = One /\ i' = 1 /\ pc' = "loop"
              /\ UNCHANGED err
  /\ UNCHANGED <<Session, candidate, references, weights, n, p_n, ps, result>>

\* lines 103-107, one iteration
LoopStep ==
  /\ fn = "compute" /\ pc = "loop" /\ i <= Len(weights)
  /\ LET p == modified_precision(candidate, references, i, seed)
     IN  /\ p_n' = p
         /\ ps' = Append(ps, p)
         /\ s' = log_sum(s, weights[i], p)
  /\ i' = i + 1
  /\ UNCHANGED <<Session, candidate, references, weights, n, pc, err, bp, result>>

\* line 109
Return ==
  /\ fn = "compute" /\ pc = "loop" /\ i > Len(weights)
  /\ result' = [e |-> bp, p |-> s]
  /\ pc' = "done"
  /\ UNCHANGED <<Session, candidate, references, weights, n, err, bp, s, i, p_n, ps>>

\* a direct call of BLEU.modified_precision(candidate, references, n)
CallModifiedPrecision ==
  /\ fn = "modified_precision" /\ pc = "call"
  /\ p_n' = modified_precision(candidate, references, n, seed)
  /\ ps' = <<p_n'>>
  /\ pc' = "done"
  /\ UNCHANGED <<Session, candidate, references, weights, n, err, bp, s, i, result>>

\* a direct call of BLEU.brevity_penalty(candidate, references)
CallBrevityPenalty ==
  /\ fn = "brevity_penalty" /\ pc = "call"
  /\ LET r == brevity_penalty(candidate, references)
     IN  /\ err' = r.err
         /\ bp' = r.val
         /\ pc' = IF r.err # "" THEN "error" ELSE "done"
  /\ UNCHANGED <<Session, candidate, references, weights, n, s, i, p_n, ps, result>>

Fresh ==
  /\ call = 1 /\ first = [err |-> "", result |-> NoScore]
  /\ err = "" /\ bp = Unset /\ s = Unset /\ i = 0 /\ p_n = Unset
  /\ ps = <<>> /\ result = NoScore

Init ==
  /\ A \in SeqsUpTo(Tokens, MaxLen)
  /\ B \in RefLists(Tokens)
  /\ variant = "raw" /\ candidate = A /\ references = B
  /\ seed \in Seeds
  /\ \/ fn = "compute" /\ weights \in WeightVectors /\ n = 0 /\ pc = "lower"
     \/ fn = "modified_precision" /\ weights = <<>> /\ n \in 1..(MaxN + 1) /\ pc = "call"
     \/ fn = "brevity_penalty" /\ weights = <<>> /\ n = 0 /\ pc = "call"
  /\ Fresh

Next ==
  \/ LowerCase
  \/ BrevityPenalty
  \/ LoopStep
  \/ Return
  \/ CallModifiedPrecision
  \/ CallBrevityPenalty

Spec == Init /\ [][Next]_vars

(***************************************************************************)
(* A session that calls compute twice.                                     *)
(***************************************************************************)
Args(v, x, y) ==
  CASE v = "upper" -> <<UpperList(x), UpperLists(y)>>
    [] v = "lower" -> <<LowerList(x), LowerLists(y)>>
    [] OTHER -> <<x, y>>

Finished == fn = "compute" /\ pc \in {"done", "error"}
Outcome == [err |-> err, result |-> result]

SecondCall(v) ==
  /\ call' = 2
  /\ first' = Outcome
  /\ variant' = v
  /\ candidate' = Args(v, A, B)[1]
  /\ references' = Args(v, A, B)[2]
  /\ pc' = "lower" /\ err' = "" /\ bp' = Unset /\ s' = Unset /\ i' = 0
  /\ p_n' = Unset /\ ps' = <<>> /\ result' = NoScore
  /\ UNCHANGED <<A, B, fn, weights, n>>

\* the same call again in the same interpreter process
Repeat ==
  /\ Finished /\ call = 1
  /\ SecondCall(variant)
  /\ UNCHANGED seed

\* the same call again in a new interpreter process (the script is run again)
Rerun ==
  /\ Finished /\ call = 1
  /\ SecondCall(variant)
  /\ seed' \in Seeds

\* compute(upper(A), [upper(B)], w) is followed by compute(lower(A), [lower(B)], w)
CallLower ==
  /\ Finished /\ call = 1 /\ variant = "upper"
  /\ SecondCall("lower")
  /\ UNCHANGED seed

InitPair ==
  /\ A \in SeqsUpTo(PairTokens, MaxLen)
  /\ \E b \in SeqsUpTo(PairTokens, MaxLen) : B = <<b>>
  /\ variant \in {"raw", "upper"}
  /\ candidate = Args(variant, A, B)[1]
  /\ references = Args(variant, A, B)[2]
  /\ seed \in Seeds
  /\ fn = "compute" /\ weights \in UnitWeightVectors /\ n = 0 /\ pc = "lower"
  /\ Fresh

NextPair ==
  \/ LowerCase
  \/ BrevityPenalty
  \/ LoopStep
  \/ Return
  \/ Repeat
  \/ Rerun
  \/ CallLower

SpecPair == InitPair /\ [][NextPair]_vars

(***************************************************************************)
(* The claims.                                                             *)
(***************************************************************************)
c_len == Len(candidate)
r_dist ==
  IF references = <<>> THEN 0
  ELSE MinOf([k \in 1..Len(references) |-> Abs(Len(references[k]) - c_len)])
ClosestRefs ==
  LET r == r_dist
  IN  {k \in 1..Len(references) : Abs(Len(references[k]) - c_len) = r}
AtLeastClosest == \E k \in ClosestRefs : c_len >= Len(references[k])
ShorterThanClosest == \A k \in ClosestRefs : c_len < Len(references[k])

\* brevity_penalty has been called and has returned or raised
BPDone ==
  \/ fn = "brevity_penalty" /\ pc \in {"done", "error"}
  \/ fn = "compute" /\ pc \in {"loop", "done", "error"}
MPDone == fn = "modified_precision" /\ pc = "done"

\* C1: scoring a non-empty A against [A] gives brevity penalty 1 and
\* precision 1 at every order 1..len(weights), hence the score 1.
C1_SelfScoreIsOne ==
  (fn = "compute" /\ pc = "done" /\ A # <<>> /\ B = <<A>>) =>
    /\ bp = Zero
    /\ \A k \in 1..Len(weights) : ps[k] = One
    /\ result = [e |-> Zero, p |-> One]

\* C2: modified_precision returns exactly 0, and raises nothing, whenever the
\* candidate has fewer than n tokens, whatever the references are.
C2_ShortCandidateZero ==
  /\ (fn = "modified_precision" /\ pc # "call" /\ c_len < n) =>
       (pc = "done" /\ err = "" /\ p_n = Zero)
  /\ fn = "compute" => \A k \in 1..Len(ps) : c_len < k => ps[k] = Zero
C2_Witness ==
  MPDone /\ c_len = 1 /\ n = 2 /\ references # <<>> /\ p_n = Zero

\* C3 as stated: brevity_penalty returns exactly 1 whenever the non-empty
\* candidate is at least as long as the reference of closest length, and
\* these are exactly the inputs with len(candidate) > min |len(ref) - len(candidate)|.
C3_Original ==
  (BPDone /\ candidate # <<>> /\ references # <<>>) =>
    /\ AtLeastClosest => (err = "" /\ bp = Zero)
    /\ AtLeastClosest <=> c_len > r_dist

\* C3 as amended: brevity_penalty returns exactly 1 whenever the non-empty
\* candidate is at least as long as the reference of closest length, and
\* whenever len(candidate) > min |len(ref) - len(candidate)|; the first set
\* lies within the second only as far as the closest reference is non-empty.
C3_Amended ==
  (BPDone /\ candidate # <<>> /\ references # <<>>) =>
    /\ AtLeastClosest => (err = "" /\ bp = Zero)
    /\ c_len > r_dist => (err = "" /\ bp = Zero)
    /\ (\E k \in ClosestRefs : c_len >= Len(references[k]) /\ references[k] # <<>>)
         => c_len > r_dist
C3_Witness ==
  /\ fn = "brevity_penalty" /\ pc = "done" /\ c_len = 2
  /\ AtLeastClosest /\ r_dist = 1 /\ bp = Zero

\* C4: with an empty candidate and at least one reference, brevity_penalty
\* and compute end in a ZeroDivisionError: nothing is returned, and compute
\* fails before any modified precision is computed.
C4_EmptyCandidateFails ==
  (fn # "modified_precision" /\ candidate = <<>> /\ references # <<>>) =>
    /\ pc \in {"call", "lower", "bp", "error"}
    /\ pc = "error" => err = "ZeroDivisionError"
    /\ pc # "error" => ENABLED Next
    /\ ps = <<>> /\ p_n = Unset /\ bp = Unset /\ result = NoScore
C4_Witness ==
  /\ fn = "compute" /\ candidate = <<>> /\ Len(references) = 2
  /\ weights # <<>> /\ pc = "error" /\ err = "ZeroDivisionError"

Range(sq) == {sq[k] : k \in 1..Len(sq)}
CallerTokens == Range(A) \cup UNION {Range(B[k]) : k \in 1..Len(B)}
CaseRoundTrips == \A t \in CallerTokens : str_lower(str_upper(t)) = str_lower(t)
LowerAfterUpper == call = 2 /\ variant = "lower" /\ Finished

\* C5 as stated: compute(upper(A), [upper(B)], w) and
\* compute(lower(A), [lower(B)], w) give the same result for all A, B, w.
C5_Original == LowerAfterUpper => Outcome = first

\* C5 as amended: the two calls give the same result whenever every token t
\* of A and B satisfies lower(upper(t)) = lower(t).
C5_Amended == (LowerAfterUpper /\ CaseRoundTrips) => Outcome = first
C5_Witness ==
  /\ LowerAfterUpper /\ CaseRoundTrips /\ pc = "done"
  /\ A = <<"i", "I">> /\ B = <<<<"I", "i">>>> /\ Len(weights) = 2
  /\ first.err = "" /\ result = first.result

\* C6: two calls of compute with identical arguments return identical
\* results, whatever order the distinct candidate n-grams are iterated in.
C6_Deterministic ==
  (call = 2 /\ variant # "lower" /\ Finished) => Outcome = first

\* C7: the brevity penalty is strictly below 1 whenever the non-empty
\* candidate is shorter than the reference of closest length.
C7_ShortCandidateDiscounted ==
  (BPDone /\ candidate # <<>> /\ references # <<>> /\ ShorterThanClosest) =>
    (err = "" /\ RatLess(bp, Zero))

NGramSet(k) == Range(ngrams(candidate, k))
LastVisited(k) ==
  LET o == set_order(ngrams(candidate, k), seed) IN o[Len(o)]
MaxRefCount(w, k) ==
  LET rcs == {list_count(ngrams(references[j], k), w) + 1 : j \in 1..Len(references)}
  IN  CHOOSE m \in rcs : \A x \in rcs : x <= m
LastClipped(k) ==
  LET w == LastVisited(k)
  IN  Rat(Min2(list_count(ngrams(candidate, k), w) + 1, MaxRefCount(w, k)),
          c_len + Cardinality(NGramSet(k)))

\* C8: with at least n candidate tokens and at least one reference,
\* modified_precision returns min(cc(w) + 1, max rc(w) + 1) / (len(candidate) + D)
\* for the last distinct candidate n-gram w visited, D the number of distinct
\* candidate n-grams.  (In compute the order just evaluated is Len(ps); the
\* earlier ones were evaluated, and are checked, in the states before.)
C8_LastNGramOnly ==
  /\ (MPDone /\ c_len >= n /\ references # <<>>) => p_n = LastClipped(n)
  /\ (fn = "compute" /\ ps # <<>> /\ c_len >= Len(ps)) =>
       (p_n = LastClipped(Len(ps)) /\ ps[Len(ps)] = p_n)
C8_Witness ==
  /\ MPDone /\ n = 1 /\ Cardinality(NGramSet(1)) = 2 /\ Len(references) = 2
  /\ MaxRefCount(LastVisited(1), 1) = 1
  /\ \E w \in NGramSet(1) : MaxRefCount(w, 1) > 2
  /\ p_n = LastClipped(1)

RECURSIVE NonZeroProduct(_, _, _)
NonZeroProduct(precisions, w, m) ==
  IF m = 0 THEN One
  ELSE LET rest == NonZeroProduct(precisions, w, m - 1)
       IN  IF precisions[m][1] = 0 THEN rest
           ELSE RatMul(rest, RatPow(precisions[m], w[m]))

\* C9: compute evaluates the precision once per order 1..len(weights), in
\* increasing order; s receives weight * ln(p) exactly for the non-zero
\* precisions, a zero precision leaves s alone and never makes the score 0;
\* for a non-empty candidate shorter than len(weights) the result is the one
\* the first len(candidate) weights alone give.
C9_ZeroPrecisionSkipped ==
  fn = "compute" =>
    /\ Len(ps) = (IF pc \in {"loop", "done"} THEN i - 1 ELSE 0)
    /\ (pc = "loop" /\ ps # <<>>) =>
         ps[Len(ps)] = modified_precision(candidate, references, Len(ps), seed)
    /\ pc \in {"loop", "done"} => s = NonZeroProduct(ps, weights, Len(ps))
    /\ pc = "done" =>
         /\ Len(ps) = Len(weights)
         /\ result.p # Zero
         /\ (candidate # <<>> /\ c_len < Len(weights)) =>
              result = [e |-> bp, p |-> NonZeroProduct(ps, weights, c_len)]
C9_Witness ==
  /\ fn = "compute" /\ pc = "done" /\ c_len = 1 /\ weights = <<1, 2>>
  /\ ps[1] # Zero /\ ps[1] # One /\ ps[2] = Zero
  /\ result.p = ps[1]

\* C10: with at least n candidate tokens and at least one reference,
\* modified_precision is strictly positive and at most 1, so a precision is 0
\* only when len(candidate) < n, and compute's score is at most the brevity
\* penalty.
C10_PrecisionInUnitInterval ==
  /\ (MPDone /\ c_len >= n /\ references # <<>>) =>
       (RatLess(Zero, p_n) /\ RatLeq(p_n, One))
  /\ fn = "compute" =>
       /\ \A k \in 1..Len(ps) :
            /\ c_len >= k => (RatLess(Zero, ps[k]) /\ RatLeq(ps[k], One))
            /\ ps[k] = Zero => c_len < k
       /\ pc = "done" => (result.e = bp /\ RatLeq(result.p, One))
C10_Witness ==
  /\ MPDone /\ n = 1 /\ candidate = <<"A", "A">>
  /\ references = <<<<"b">>, <<"b", "b">>>>
  /\ RatLess(Zero, p_n)

====
